---- MODULE Spec2Model ----
(***************************************************************************)
(* Model of the yahoo_stock_price_etl pipeline: the extract, transform and *)
(* load commands of app.py acting on the date-partitioned CSV staging      *)
(* files, with the pandas operations of StockDataTransformer written out   *)
(* as operators over tables.                                               *)
(*                                                                         *)
(* Numbers are exact rationals <<n, d>> with d > 0 in lowest terms; the    *)
(* missing value NaN is <<0, 0>>.  A table (DataFrame) is a record         *)
(*   [names, index, columns, rows]                                         *)
(* names: the index level names, index: one label tuple per row, columns:  *)
(* the column names in order, rows: one record column -> value per row.    *)
(* A CSV file is [header, lines]: the header names and, per line, the cell *)
(* texts, where the empty text is <<>> and a number's text is the number.  *)
(***************************************************************************)
EXTENDS Integers, Sequences, FiniteSets, TLC

VARIABLES
    feed,       \* what the market-data provider returns for each ticker
    tickers,    \* the configured ticker list (order as given)
    cfg,        \* the configuration of the transformer constructed last
    today,      \* datetime.today() as a YYYY_MM_DD key
    files,      \* the staging directory: path -> CSV file
    last,       \* the command that ran last and what it returned
    returned    \* history: per key, the table the last successful transform() returned

vars == <<feed, tickers, cfg, today, files, last, returned>>

----------------------------------------------------------------------------
(* Bounds of the model                                                     *)

MaxTotalRows == 3      \* rows over all tickers in the series and cleaning feeds
MaxFeedRows == 2       \* rows over all tickers in the pipeline feeds

Windows == {1, 2}                  \* values of roll_avg_days
Spans == {1, 2}                    \* values of ema_span

Dates == {1, 2}                    \* trading days (ordinals)
Prices == {1, 2}                   \* quoted prices, all positive
Keys == <<"2023_01_01", "2023_01_02">>   \* partition keys in calendar order
TickerLists == {<<"AAPL", "MSFT">>, <<"MSFT", "AAPL">>}
SortedTickers == <<"AAPL", "MSFT">>      \* the tickers in lexical order

----------------------------------------------------------------------------
(* Numbers                                                                 *)

NaN == <<0, 0>>
Num(k) == <<k, 1>>
IsNa(v) == v = NaN
IsInf(v) == v[2] = 0 /\ v[1] # 0
Abs(k) == IF k < 0 THEN -k ELSE k

RECURSIVE GCD(_, _)
GCD(a, b) == IF b = 0 THEN a ELSE GCD(b, a % b)

Norm(n, d) ==
    IF d = 0 THEN <<(IF n > 0 THEN 1 ELSE IF n < 0 THEN -1 ELSE 0), 0>>
    ELSE LET s == IF d < 0 THEN -1 ELSE 1
             g == GCD(Abs(n), Abs(d))
         IN  <<(s * n) \div g, (s * d) \div g>>

Add(a, b) ==
    IF IsNa(a) \/ IsNa(b) THEN NaN
    ELSE IF IsInf(a) THEN (IF IsInf(b) /\ b # a THEN NaN ELSE a)
    ELSE IF IsInf(b) THEN b
    ELSE Norm(a[1] * b[2] + b[1] * a[2], a[2] * b[2])
Neg(a) == <<-a[1], a[2]>>
Sub(a, b) == Add(a, Neg(b))
Mul(a, b) ==
    IF IsNa(a) \/ IsNa(b) THEN NaN
    ELSE Norm(a[1] * b[1], a[2] * b[2])
Div(a, b) ==
    IF IsNa(a) \/ IsNa(b) THEN NaN
    ELSE IF IsInf(b) THEN (IF IsInf(a) THEN NaN ELSE Num(0))
    ELSE Norm(a[1] * b[2], a[2] * b[1])

\* IEEE comparisons: every comparison with NaN is false
Gt(a, b) == ~IsNa(a) /\ ~IsNa(b) /\ a # b /\
            (IF IsInf(a) \/ IsInf(b) THEN Sub(a, b)[1] > 0
             ELSE a[1] * b[2] > b[1] * a[2])
Lt(a, b) == Gt(b, a)
AsInt(bool) == IF bool THEN Num(1) ELSE Num(0)

----------------------------------------------------------------------------
(* Tables                                                                  *)

Range(s) == {s[i] : i \in DOMAIN s}
PosOf(s, x) == CHOOSE i \in DOMAIN s : s[i] = x
NRows(df) == Len(df.rows)
NoTable == [names |-> <<>>, index |-> <<>>, columns |-> <<>>, rows |-> <<>>]

Column(df, c) == [i \in 1..NRows(df) |-> df.rows[i][c]]

\* df[c] = vals, positionally: a new column goes last
SetColumn(df, c, vals) ==
    [df EXCEPT
        !.columns = IF c \in Range(df.columns) THEN @ ELSE Append(@, c),
        !.rows = [i \in 1..NRows(df) |->
                    [k \in (DOMAIN df.rows[i]) \cup {c} |->
                        IF k = c THEN vals[i] ELSE df.rows[i][k]]]]

RangeIndex(n) == [i \in 1..n |-> <<i - 1>>]

\* DataFrame.reset_index(): the index levels become the leading columns
ResetIndex(df) ==
    [names |-> <<>>,
     index |-> RangeIndex(NRows(df)),
     columns |-> df.names \o df.columns,
     rows |-> [i \in 1..NRows(df) |->
                 [k \in Range(df.names) \cup Range(df.columns) |->
                     IF k \in Range(df.names)
                     THEN df.index[i][PosOf(df.names, k)]
                     ELSE df.rows[i][k]]]]

\* DataFrame.set_index(keys): the key columns become the index labels;
\* verify_integrity is off, so repeated labels are accepted
SetIndex(df, keys) ==
    [names |-> keys,
     index |-> [i \in 1..NRows(df) |-> [j \in 1..Len(keys) |-> df.rows[i][keys[j]]]],
     columns |-> SelectSeq(df.columns, LAMBDA c : c \notin Range(keys)),
     rows |-> [i \in 1..NRows(df) |->
                 [k \in Range(df.columns) \ Range(keys) |-> df.rows[i][k]]]]

\* pd.concat(dfs, ignore_index=True) of tables with the same columns
RECURSIVE ConcatRows(_)
ConcatRows(dfs) ==
    IF dfs = <<>> THEN <<>> ELSE Head(dfs).rows \o ConcatRows(Tail(dfs))

Concat(dfs) ==
    LET rs == ConcatRows(dfs)
    IN  [names |-> <<>>, index |-> RangeIndex(Len(rs)),
         columns |-> Head(dfs).columns, rows |-> rs]

----------------------------------------------------------------------------
(* CSV files                                                               *)

ToCell(v) == IF IsNa(v) THEN <<>> ELSE v
FromCell(c) == IF c = <<>> THEN NaN ELSE c

\* DataFrame.to_csv(path, index=False): the columns only, the index is not written
ToCsv(df) ==
    [header |-> df.columns,
     lines |-> [i \in 1..NRows(df) |->
                  [j \in 1..Len(df.columns) |-> ToCell(df.rows[i][df.columns[j]])]]]

\* pd.read_csv(path, index_col=None, header=0)
ReadCsv(file) ==
    [names |-> <<>>,
     index |-> RangeIndex(Len(file.lines)),
     columns |-> file.header,
     rows |-> [i \in 1..Len(file.lines) |->
                 [k \in Range(file.header) |->
                     FromCell(file.lines[i][PosOf(file.header, k)])]]]

ExtractPath(key, ticker) == <<"extract", key, ticker>>
\* mutant: the transform directory without its date partition
TransformPathNoKey(key) == <<"transform", "", "transformed_data">>
TransformPath(key) == <<"transform", key, "transformed_data">>

\* BaseETL._save_to_csv: creates the directory and (over)writes the file
SaveToCsv(fs, path, df) ==
    [p \in (DOMAIN fs) \cup {path} |-> IF p = path THEN ToCsv(df) ELSE fs[p]]

----------------------------------------------------------------------------
(* pandas series operations used by the transformer                        *)

RECURSIVE FfillAt(_, _)
FfillAt(s, i) ==
    IF ~IsNa(s[i]) THEN s[i] ELSE IF i = 1 THEN NaN ELSE FfillAt(s, i - 1)

\* mutant: fillna(0) in place of ffill()
FfillZero(s) == [i \in 1..Len(s) |-> IF IsNa(s[i]) THEN Num(0) ELSE s[i]]

\* Series.ffill()
Ffill(s) == [i \in 1..Len(s) |-> FfillAt(s, i)]

RECURSIVE BfillAt(_, _)
BfillAt(s, i) ==
    IF ~IsNa(s[i]) THEN s[i] ELSE IF i = Len(s) THEN NaN ELSE BfillAt(s, i + 1)

\* Series.bfill()
Bfill(s) == [i \in 1..Len(s) |-> BfillAt(s, i)]

\* pct_change() of one group: pad, then filled / filled.shift(1) - 1
PctChange(s) ==
    LET filled == Ffill(s)
    IN  [j \in 1..Len(s) |->
            IF j = 1 THEN NaN ELSE Sub(Div(filled[j], filled[j - 1]), Num(1))]

RECURSIVE SumOver(_, _)
SumOver(s, idx) ==
    IF idx = {} THEN Num(0)
    ELSE LET k == CHOOSE x \in idx : TRUE
         IN  Add(s[k], SumOver(s, idx \ {k}))

\* mutant: rolling(window).mean(), min_periods left at its default, the window
RollingMeanFullWindow(s, window) ==
    [j \in 1..Len(s) |->
        LET valid == {k \in (j - window + 1)..j : k >= 1 /\ ~IsNa(s[k])}
        IN  IF Cardinality(valid) < window THEN NaN
            ELSE Div(SumOver(s, valid), Num(window))]

\* rolling(window, min_periods=1).mean() of one group: the mean of the
\* non-missing values among the last `window` rows, NaN when there is none
RollingMean(s, window) ==
    [j \in 1..Len(s) |->
        LET lo == IF j - window + 1 < 1 THEN 1 ELSE j - window + 1
            valid == {k \in lo..j : ~IsNa(s[k])}
        IN  IF Cardinality(valid) < 1 THEN NaN
            ELSE Div(SumOver(s, valid), Num(Cardinality(valid)))]

\* ewm(span, adjust=False).mean() of one group, as pandas' ewm loop runs it
\* (ignore_na=False, min_periods 0): the state after row j is the weighted
\* average w and the weight old_wt carried by it
RECURSIVE EwmState(_, _, _)
EwmState(s, j, alpha) ==
    IF j = 1 THEN [w |-> s[1], old_wt |-> Num(1)]
    ELSE LET prev == EwmState(s, j - 1, alpha)
             cur == s[j]
             decayed == Mul(prev.old_wt, Sub(Num(1), alpha))
         IN  IF ~IsNa(prev.w)
             THEN IF ~IsNa(cur)
                  THEN [w |-> IF prev.w # cur
                              THEN Div(Add(Mul(decayed, prev.w), Mul(alpha, cur)),
                                       Add(decayed, alpha))
                              ELSE prev.w,
                        old_wt |-> Num(1)]
                  ELSE [w |-> prev.w, old_wt |-> decayed]
             ELSE IF ~IsNa(cur) THEN [w |-> cur, old_wt |-> prev.old_wt]
             ELSE prev

\* mutant: ewm(com=span) in place of ewm(span=span)
EwmMeanCom(s, span) ==
    LET alpha == Div(Num(1), Num(span + 1))
    IN  [j \in 1..Len(s) |-> EwmState(s, j, alpha).w]

EwmMean(s, span) ==
    LET alpha == Div(Num(2), Num(span + 1))
    IN  [j \in 1..Len(s) |-> EwmState(s, j, alpha).w]

----------------------------------------------------------------------------
(* groupby on the Ticker level                                             *)

TickerOf(df, i) == df.index[i][PosOf(df.names, "Ticker")]

\* the group keys, sorted (groupby sorts its keys)
GroupKeys(df) ==
    SelectSeq(SortedTickers, LAMBDA t : \E i \in 1..NRows(df) : TickerOf(df, i) = t)

\* the row positions of one group, in the table's row order
GroupRows(df, t) ==
    SelectSeq([i \in 1..NRows(df) |-> i], LAMBDA i : TickerOf(df, i) = t)

GroupValues(df, t, col) ==
    LET pos == GroupRows(df, t) IN [j \in 1..Len(pos) |-> df.rows[pos[j]][col]]

\* mutant: df[col].pct_change() without the groupby
UngroupedPctChange(df, col) ==
    [index |-> df.index, values |-> PctChange(Column(df, col))]

\* groupby("Ticker")[col].pct_change(): a transform, the result keeps the
\* table's own index and row order
GroupPctChange(df, col) ==
    LET change == [t \in Range(GroupKeys(df)) |-> PctChange(GroupValues(df, t, col))]
    IN  [index |-> df.index,
         values |-> [i \in 1..NRows(df) |->
                       LET t == TickerOf(df, i)
                       IN  change[t][PosOf(GroupRows(df, t), i)]]]

\* groupby(level="Ticker")[col].<window>().mean().reset_index(level=0, drop=True):
\* the groups one after the other in key order, labelled (Date, Ticker)
RECURSIVE GroupOrder(_, _)
GroupOrder(df, keys) ==
    IF keys = <<>> THEN <<>>
    ELSE GroupRows(df, Head(keys)) \o GroupOrder(df, Tail(keys))

\* the window mean of one group: rolling(param, min_periods=1) or ewm(span=param)
WindowMean(kind, s, param) ==
    IF kind = "rolling" THEN RollingMean(s, param) ELSE EwmMean(s, param)

GroupWindow(df, col, kind, param) ==
    LET order == GroupOrder(df, GroupKeys(df))
        mean == [t \in Range(GroupKeys(df)) |->
                    WindowMean(kind, GroupValues(df, t, col), param)]
    IN  [index |-> [j \in 1..Len(order) |-> df.index[order[j]]],
         values |-> [j \in 1..Len(order) |->
                       LET t == TickerOf(df, order[j])
                       IN  mean[t][PosOf(GroupRows(df, t), order[j])]]]

IsUnique(idx) == \A i, j \in DOMAIN idx : idx[i] = idx[j] => i = j

\* df[col] = series (DataFrame.__setitem__ with _reindex_for_setitem): taken
\* positionally when the two indexes are equal or the frame is empty,
\* otherwise reindexed on the frame's labels, which raises ValueError when
\* the series' labels repeat
AssignSeries(df, col, ser) ==
    IF ser.index = df.index \/ NRows(df) = 0
    THEN [error |-> "", df |-> SetColumn(df, col, ser.values)]
    ELSE IF ~IsUnique(ser.index)
    THEN [error |-> "ValueError", df |-> df]
    ELSE [error |-> "",
          df |-> SetColumn(df, col,
                    [i \in 1..NRows(df) |->
                        IF df.index[i] \in Range(ser.index)
                        THEN ser.values[PosOf(ser.index, df.index[i])]
                        ELSE NaN])]

----------------------------------------------------------------------------
(* StockDataTransformer                                                    *)

PriceColumns == {"Open", "High", "Low", "Close", "Adj Close"}
RollAvgColumn(window) == "RollAvg" \o ToString(window) \o "Days"
EmaColumn(span) == "EMA" \o ToString(span)

\* pd.to_datetime on the Date column; a date's text is modelled by its ordinal
ToDatetime(v) == v

\* _read_and_concatenate: every ticker's raw file, tagged with its ticker,
\* one after the other in the order of the ticker list, indexed (Date, Ticker)
ReadAndConcatenate(fs, key, tks) ==
    LET tagged(t) ==
            LET raw == ReadCsv(fs[ExtractPath(key, t)])
                dated == SetColumn(raw, "Date",
                            [i \in 1..NRows(raw) |-> ToDatetime(raw.rows[i]["Date"])])
            IN  SetColumn(dated, "Ticker", [i \in 1..NRows(raw) |-> t])
    IN  SetIndex(Concat([i \in 1..Len(tks) |-> tagged(tks[i])]), <<"Date", "Ticker">>)

\* _clean: every price column forward-filled, Volume back-filled, each over
\* the whole column in the table's row order
Clean(df) ==
    LET filled == [k \in Range(df.columns) |->
                      IF k \in PriceColumns THEN Ffill(Column(df, k))
                      ELSE IF k = "Volume" THEN Bfill(Column(df, k))
                      ELSE Column(df, k)]
    IN  [df EXCEPT !.rows =
            [i \in 1..NRows(df) |-> [k \in DOMAIN df.rows[i] |-> filled[k][i]]]]

\* _add_daily_return
AddDailyReturn(df) ==
    AssignSeries(df, "DailyReturn", GroupPctChange(df, "Close"))

\* _add_rolling_average
AddRollingAverage(df, window) ==
    AssignSeries(df, RollAvgColumn(window),
                 GroupWindow(df, "Close", "rolling", window))

\* _add_ema
AddEma(df, span) ==
    AssignSeries(df, EmaColumn(span),
                 GroupWindow(df, "Close", "ewm", span))

\* mutant: only the (roll > ema) term
AddTimeSeriesAnalysisGtOnly(df, roll_window, ema_span) ==
    SetColumn(df, "Crossover",
        [i \in 1..NRows(df) |->
            AsInt(Gt(df.rows[i][RollAvgColumn(roll_window)],
                     df.rows[i][EmaColumn(ema_span)]))])

\* _add_time_series_analysis: (roll > ema).astype(int) - (roll < ema).astype(int)
AddTimeSeriesAnalysis(df, roll_window, ema_span) ==
    SetColumn(df, "Crossover",
        [i \in 1..NRows(df) |->
            LET roll == df.rows[i][RollAvgColumn(roll_window)]
                ema == df.rows[i][EmaColumn(ema_span)]
            IN  Sub(AsInt(Gt(roll, ema)), AsInt(Lt(roll, ema)))])

\* transform(), up to the save: the steps in order; an exception raised by a
\* step ends the call with self.df as that step found it
Transform(df, config) ==
    LET cleaned == Clean(df)
        ret == AddDailyReturn(cleaned)
        roll == AddRollingAverage(ret.df, config.roll_avg_days)
        ema == AddEma(roll.df, config.ema_span)
    IN  IF roll.error # "" THEN [error |-> roll.error, cleaned |-> cleaned, df |-> roll.df]
        ELSE IF ema.error # "" THEN [error |-> ema.error, cleaned |-> cleaned, df |-> ema.df]
        ELSE [error |-> "", cleaned |-> cleaned,
              df |-> AddTimeSeriesAnalysis(ema.df, config.roll_avg_days, config.ema_span)]

----------------------------------------------------------------------------
(* The provider's data                                                     *)

RawColumns == <<"Open", "High", "Low", "Close", "Adj Close", "Volume">>
TickerSet == Range(SortedTickers)

\* one daily bar: the Date, the Close, the other four prices, the Volume
Bar(d, close, other, volume) ==
    [k \in {"Date"} \cup Range(RawColumns) |->
        CASE k = "Date" -> Num(d)
          [] k = "Close" -> close
          [] k = "Volume" -> volume
          [] OTHER -> other]

\* what yf.download returns: the bars indexed by Date
ProviderTable(bars) ==
    SetIndex([names |-> <<>>, index |-> RangeIndex(Len(bars)),
              columns |-> <<"Date">> \o RawColumns, rows |-> bars], <<"Date">>)

Quotes == {NaN} \cup {Num(p) : p \in Prices}

\* series feeds: any dates in any order, the prices of a bar all equal
SeriesBars == {Bar(d, c, c, Num(100)) : d \in Dates, c \in Quotes}
SeriesTables(n) == {ProviderTable(bars) : bars \in [1..n -> SeriesBars]}

\* cleaning feeds: consecutive dates, gaps in the Close and, independently,
\* in the Volume and the other prices
GapChoices == Quotes \X Quotes
GapTables(n) ==
    {ProviderTable([i \in 1..n |->
            Bar(i, g[i][1], g[i][2], Mul(g[i][2], Num(100)))]) :
        g \in [1..n -> GapChoices]}

\* the feeds with at most `total` rows over the two tickers
FeedTables(kind, n) == IF kind = "series" THEN SeriesTables(n) ELSE GapTables(n)
Feeds(kind, total) ==
    UNION {{[t \in TickerSet |-> IF t = SortedTickers[1] THEN a ELSE b] :
                a \in FeedTables(kind, n[1]), b \in FeedTables(kind, n[2])} :
           n \in {m \in (0..total) \X (0..total) : m[1] + m[2] <= total}}

Configs == [roll_avg_days : Windows, ema_span : Spans]
TestConfig == [roll_avg_days |-> 2, ema_span |-> 2]

----------------------------------------------------------------------------
(* The commands of app.py                                                  *)

NoFiles == [p \in {} |-> NoTable]

Ran(cmd, key, status, panel, cleaned, df) ==
    [cmd |-> cmd, key |-> key, status |-> status,
     panel |-> panel, cleaned |-> cleaned, df |-> df]

\* StockDataExtractor.extract: one raw file per ticker under today's key
RECURSIVE ExtractAll(_, _, _, _)
ExtractAll(fs, data, key, tks) ==
    IF tks = <<>> THEN fs
    ELSE ExtractAll(SaveToCsv(fs, ExtractPath(key, Head(tks)), ResetIndex(data[Head(tks)])),
                    data, key, Tail(tks))

\* app.extract
ExtractRun ==
    /\ files' = ExtractAll(files, feed, today, tickers)
    /\ last' = Ran("extract", today, "ok", NoTable, NoTable,
                   ResetIndex(feed[tickers[Len(tickers)]]))
    /\ UNCHANGED <<feed, tickers, cfg, today, returned>>

\* app.transform: StockDataTransformer(..., config) then transform()
TransformRun(key, config) ==
    /\ IF \E i \in 1..Len(tickers) : ExtractPath(key, tickers[i]) \notin DOMAIN files
       THEN /\ last' = Ran("transform", key, "FileNotFoundError", NoTable, NoTable, NoTable)
            /\ UNCHANGED <<files, returned>>
       ELSE LET panel == ReadAndConcatenate(files, key, tickers)
                r == Transform(panel, config)
            IN  IF r.error # ""
                THEN /\ last' = Ran("transform", key, r.error, panel, r.cleaned, r.df)
                     /\ UNCHANGED <<files, returned>>
                ELSE /\ files' = SaveToCsv(files, TransformPath(key), r.df)
                     /\ last' = Ran("transform", key, "ok", panel, r.cleaned, r.df)
                     /\ returned' = [k \in (DOMAIN returned) \cup {key} |->
                                        IF k = key THEN r.df ELSE returned[k]]
    /\ cfg' = config
    /\ UNCHANGED <<feed, tickers, today>>

\* app.load: StockDataLoader(...) then load()
LoadRun(key) ==
    /\ IF TransformPath(key) \notin DOMAIN files
       THEN last' = Ran("load", key, "FileNotFoundError", NoTable, NoTable, NoTable)
       ELSE last' = Ran("load", key, "ok", NoTable, NoTable,
                        ReadCsv(files[TransformPath(key)]))
    /\ UNCHANGED <<feed, tickers, cfg, today, files, returned>>

\* midnight: datetime.today() moves to the next key
NextDay ==
    /\ today = Keys[1]
    /\ today' = Keys[2]
    /\ UNCHANGED <<feed, tickers, cfg, files, last, returned>>

NotRun == Ran("", "", "", NoTable, NoTable, NoTable)

\* the staging directory after an extract run of `data` under `key`
Extracted(data, key, tks) == ExtractAll(NoFiles, data, key, tks)

----------------------------------------------------------------------------
(* Specifications                                                          *)

\* the pipeline: the three commands in any order on an empty staging directory
Init ==
    /\ feed \in Feeds("series", MaxFeedRows)
    /\ tickers = SortedTickers
    /\ cfg = TestConfig
    /\ today = Keys[1]
    /\ files = NoFiles
    /\ last = NotRun
    /\ returned = [k \in {} |-> NoTable]

Next ==
    \/ ExtractRun
    \/ \E k \in Range(Keys) : TransformRun(k, TestConfig)
    \/ \E k \in Range(Keys) : LoadRun(k)
    \/ NextDay

Spec == Init /\ [][Next]_vars

\* the transformer on an extracted partition of series feeds
InitSeries ==
    /\ feed \in Feeds("series", MaxTotalRows)
    /\ tickers \in TickerLists
    /\ cfg = TestConfig
    /\ today = Keys[1]
    /\ files = Extracted(feed, today, tickers)
    /\ last = NotRun
    /\ returned = [k \in {} |-> NoTable]

\* one run of the transform command on today's partition
TransformOnce(config) ==
    /\ last = NotRun
    /\ TransformRun(today, config)

NextTransform == \E config \in Configs : TransformOnce(config)

SpecSeries == InitSeries /\ [][NextTransform]_vars

\* the transformer on an extracted partition of cleaning feeds
InitGaps ==
    /\ feed \in Feeds("gaps", MaxTotalRows)
    /\ tickers = SortedTickers
    /\ cfg = TestConfig
    /\ today = Keys[1]
    /\ files = Extracted(feed, today, tickers)
    /\ last = NotRun
    /\ returned = [k \in {} |-> NoTable]

NextClean == TransformOnce(TestConfig)

SpecGaps == InitGaps /\ [][NextClean]_vars

\* app.etl: the three commands one after the other on an empty staging
\* directory, run after run; the run's position is the command that returned
\* last, and extraction_date_str is the key that extract() handed back
EtlIdle ==
    \/ last.cmd \in {"", "load"}
    \/ (last.cmd = "transform" /\ last.status # "ok")

\* extraction_date_str = extract(...).day_str
EtlExtract ==
    /\ EtlIdle
    /\ ExtractRun

\* mutant: transform() left to its default key, the day the command runs
EtlTransformToday ==
    /\ last.cmd = "extract"
    /\ TransformRun(today, TestConfig)

\* transform(tickers=tickers, extraction_date_str=extraction_date_str)
EtlTransform ==
    /\ last.cmd = "extract"
    /\ TransformRun(last.key, TestConfig)

\* load(extraction_date_str=extraction_date_str); an exception raised by
\* transform() ends the run before it
EtlLoad ==
    /\ last.cmd = "transform"
    /\ last.status = "ok"
    /\ LoadRun(last.key)

NextEtl ==
    \/ EtlExtract
    \/ EtlTransform
    \/ EtlLoad
    \/ NextDay

SpecEtl == Init /\ [][NextEtl]_vars

----------------------------------------------------------------------------
(* Properties                                                              *)

TransformRan == last.cmd = "transform"
TransformOk == last.cmd = "transform" /\ last.status = "ok"
LoadRan == last.cmd = "load"

\* every requested ticker's raw file of the partition exists and has no row
AllRawFilesEmpty(key) ==
    \A i \in 1..Len(tickers) :
        /\ ExtractPath(key, tickers[i]) \in DOMAIN files
        /\ Len(files[ExtractPath(key, tickers[i])].lines) = 0

\* C1: a transformer run on a partition whose raw files all have zero rows
\* fails with an error; it returns no table and writes no consolidated file.
C1_EmptyPartitionFails ==
    (TransformRan /\ AllRawFilesEmpty(last.key)) =>
        /\ last.status \notin {"ok"}
        /\ TransformPath(last.key) \notin DOMAIN files

\* C2: a successful load of key K returns the table transform() returned for
\* K: the same columns, with Date and Ticker among them, and the same rows.
C2_LoadReturnsTransformed ==
    (LoadRan /\ last.status = "ok") =>
        LET table == ResetIndex(returned[last.key])
        IN  /\ last.df.columns = table.columns
            /\ last.df.rows = table.rows

\* C3: a load of key K succeeds exactly when a transformer run has written
\* the consolidated file of K before; otherwise it fails with the not-found
\* error and hands back no table.
C3_LoadNeedsTransform ==
    LoadRan =>
        /\ last.status = "ok" <=> last.key \in DOMAIN returned
        /\ last.key \notin DOMAIN returned =>
              (last.status = "FileNotFoundError" /\ last.df = NoTable)

\* C3 witness: a load failed for a key no transformer wrote while the other
\* key's consolidated file is in the staging directory
C3_Witness ==
    /\ LoadRan
    /\ last.status = "FileNotFoundError"
    /\ \E k \in Range(Keys) : k # last.key /\ TransformPath(k) \in DOMAIN files

----------------------------------------------------------------------------
(* Properties of the transformer's steps                                   *)

\* the transformer was constructed, so _clean ran on the panel
Cleaned == TransformRan /\ last.status # "FileNotFoundError"

\* the nearest non-missing value at or before row i, NaN when there is none
NearestBefore(s, i) ==
    IF \A j \in 1..i : IsNa(s[j]) THEN NaN
    ELSE s[CHOOSE j \in 1..i : ~IsNa(s[j]) /\ \A k \in (j + 1)..i : IsNa(s[k])]

\* the nearest non-missing value at or after row i, NaN when there is none
NearestAfter(s, i) ==
    IF \A j \in i..Len(s) : IsNa(s[j]) THEN NaN
    ELSE s[CHOOSE j \in i..Len(s) : ~IsNa(s[j]) /\ \A k \in i..(j - 1) : IsNa(s[k])]

\* C4: clean() leaves every non-missing value alone, sets a missing price to
\* the nearest preceding non-missing value of its column in row order and a
\* missing Volume to the nearest following one, and leaves a value missing
\* when there is no such neighbour.
C4_CleanFillsFromNeighbour ==
    Cleaned =>
        /\ last.cleaned.index = last.panel.index
        /\ last.cleaned.columns = last.panel.columns
        /\ \A i \in 1..NRows(last.panel) :
              /\ \A c \in PriceColumns :
                    last.cleaned.rows[i][c] = NearestBefore(Column(last.panel, c), i)
              /\ last.cleaned.rows[i]["Volume"] =
                    NearestAfter(Column(last.panel, "Volume"), i)

\* C4 witness: a Close gap and a Volume gap were filled, a leading Close gap
\* and a trailing Volume gap stayed
C4_Witness ==
    /\ Cleaned
    /\ \E i \in 1..NRows(last.panel) :
          IsNa(last.panel.rows[i]["Close"]) /\ ~IsNa(last.cleaned.rows[i]["Close"])
    /\ \E i \in 1..NRows(last.panel) : IsNa(last.cleaned.rows[i]["Close"])
    /\ \E i \in 1..NRows(last.panel) :
          IsNa(last.panel.rows[i]["Volume"]) /\ ~IsNa(last.cleaned.rows[i]["Volume"])
    /\ \E i \in 1..NRows(last.panel) : IsNa(last.cleaned.rows[i]["Volume"])

Out(i, c) == last.df.rows[i][c]
RollOut(i) == Out(i, RollAvgColumn(cfg.roll_avg_days))
EmaOut(i) == Out(i, EmaColumn(cfg.ema_span))
OutRows == 1..NRows(last.df)
OutTickers == {TickerOf(last.df, i) : i \in OutRows}

DateOf(df, i) == df.index[i][PosOf(df.names, "Date")][1]

\* the returned table has one row per (Date, Ticker) and every ticker's rows
\* are in ascending Date order
OutWellFormed ==
    /\ TransformOk
    /\ \A i, j \in OutRows :
          (i < j /\ TickerOf(last.df, i) = TickerOf(last.df, j)) =>
              DateOf(last.df, i) < DateOf(last.df, j)

\* C5 as stated: RollAvg{N}Days is non-null in every row of the returned
\* table (checked on the tables with unique keys in Date order).
C5_RollAvgNeverNull ==
    OutWellFormed => \A i \in OutRows : ~IsNa(RollOut(i))

\* C5 amended: RollAvg{N}Days is null exactly in the rows whose Close is
\* still missing after clean(), which are rows of a gap at the top of the
\* panel; in every other row, a ticker's first row included, it is non-null.
C5_RollAvgNullOnlyInLeadingGap ==
    TransformOk =>
        \A i \in OutRows :
            /\ IsNa(RollOut(i)) <=> IsNa(Out(i, "Close"))
            /\ IsNa(RollOut(i)) => \A k \in 1..i : IsNa(Out(k, "Close"))

\* C5 witness: a window of two or more, a ticker's first row with a rolling
\* average, and a row of a leading gap without one
C5_Witness ==
    /\ TransformOk
    /\ cfg.roll_avg_days >= 2
    /\ \E t \in OutTickers :
          /\ Len(GroupRows(last.df, t)) >= 2
          /\ ~IsNa(RollOut(GroupRows(last.df, t)[1]))
    /\ \E i \in OutRows : IsNa(RollOut(i))

SignOf(k) == IF k > 0 THEN 1 ELSE IF k < 0 THEN -1 ELSE 0
\* sign(x) of a float: NaN for NaN
Sign(v) == IF IsNa(v) THEN NaN ELSE Num(SignOf(v[1]))

\* C6 as stated: Crossover is in {-1, 0, 1} and equals sign(RollAvg - EMA)
\* (checked on the tables with unique keys in Date order).
C6_CrossoverIsSign ==
    OutWellFormed =>
        \A i \in OutRows :
            /\ Out(i, "Crossover") \in {Num(-1), Num(0), Num(1)}
            /\ Out(i, "Crossover") = Sign(Sub(RollOut(i), EmaOut(i)))

\* C6 amended: Crossover is in {-1, 0, 1}; where RollAvg and EMA are both
\* non-null it is the sign of their difference (0 exactly when they are
\* equal), and where either is null it is 0.
C6_CrossoverIsSignOrZeroOnNull ==
    TransformOk =>
        \A i \in OutRows :
            LET r == RollOut(i)
                e == EmaOut(i)
            IN  /\ Out(i, "Crossover") \in {Num(-1), Num(0), Num(1)}
                /\ IF IsNa(r) \/ IsNa(e) THEN Out(i, "Crossover") = Num(0)
                   ELSE /\ Out(i, "Crossover") = Num(SignOf(r[1] * e[2] - e[1] * r[2]))
                        /\ Out(i, "Crossover") = Num(0) <=> r = e

\* C6 witness: a row with a non-zero signal and a row of a leading gap
C6_Witness ==
    /\ TransformOk
    /\ \E i \in OutRows : Out(i, "Crossover") \in {Num(-1), Num(1)}
    /\ \E i \in OutRows : IsNa(RollOut(i)) /\ Out(i, "Crossover") = Num(0)

Alpha == Div(Num(2), Num(cfg.ema_span + 1))
Smoothed(close, prev) == Add(Mul(Alpha, close), Mul(Sub(Num(1), Alpha), prev))

\* C7 as stated: per ticker, EMA of the first row is its Close and every
\* later row has EMA[t] = a*Close[t] + (1-a)*EMA[t-1] over the ticker's rows
\* (checked on the tables with unique keys in Date order).
C7_EmaRecursion ==
    OutWellFormed =>
        \A t \in OutTickers :
            LET pos == GroupRows(last.df, t)
            IN  \A j \in 1..Len(pos) :
                    EmaOut(pos[j]) =
                        IF j = 1 THEN Out(pos[1], "Close")
                        ELSE Smoothed(Out(pos[j], "Close"), EmaOut(pos[j - 1]))

\* C7 amended: per ticker, EMA is null while Close is missing (a leading
\* gap), equals Close on the ticker's first row with a Close, and on every
\* later row is a*Close[t] + (1-a)*EMA[t-1] of the same ticker's rows.
C7_EmaRecursionFromFirstClose ==
    TransformOk =>
        \A t \in OutTickers :
            LET pos == GroupRows(last.df, t)
            IN  \A j \in 1..Len(pos) :
                    EmaOut(pos[j]) =
                        IF IsNa(Out(pos[j], "Close")) THEN NaN
                        ELSE IF j = 1 \/ IsNa(EmaOut(pos[IF j = 1 THEN 1 ELSE j - 1]))
                        THEN Out(pos[j], "Close")
                        ELSE Smoothed(Out(pos[j], "Close"), EmaOut(pos[j - 1]))

\* C7 witness: a span of two or more, a ticker that follows another in the
\* panel and whose second row's EMA is neither its Close nor its previous EMA,
\* and a ticker whose series starts after a gap
C7_Witness ==
    /\ TransformOk
    /\ cfg.ema_span >= 2
    /\ \E t \in OutTickers :
          LET pos == GroupRows(last.df, t)
          IN  /\ Len(pos) >= 2
              /\ pos[1] > 1
              /\ EmaOut(pos[2]) \notin {NaN, Out(pos[2], "Close"), EmaOut(pos[1])}
    /\ \E i \in OutRows : IsNa(EmaOut(i))

\* C8: per ticker, DailyReturn is null on the first row and
\* (Close[t] - Close[t-1]) / Close[t-1] on every later row, over the ticker's
\* own rows.
C8_DailyReturnPerTicker ==
    TransformOk =>
        \A t \in OutTickers :
            LET pos == GroupRows(last.df, t)
            IN  \A j \in 1..Len(pos) :
                    Out(pos[j], "DailyReturn") =
                        IF j = 1 THEN NaN
                        ELSE Div(Sub(Out(pos[j], "Close"), Out(pos[j - 1], "Close")),
                                 Out(pos[j - 1], "Close"))

\* C8 witness: a ticker that follows another in the panel, with a Close on
\* its first row different from the Close of the row above, and a later row
\* with a non-zero return
C8_Witness ==
    /\ TransformOk
    /\ \E t \in OutTickers :
          LET pos == GroupRows(last.df, t)
          IN  /\ Len(pos) >= 2
              /\ pos[1] > 1
              /\ ~IsNa(Out(pos[1] - 1, "Close"))
              /\ ~IsNa(Out(pos[1], "Close"))
              /\ Out(pos[1] - 1, "Close") # Out(pos[1], "Close")
              /\ Out(pos[2], "DailyReturn") \notin {NaN, Num(0)}

\* C9: the panel built from the raw files has at most one row per
\* (Date, Ticker) pair.
C9_PanelKeyUnique ==
    Cleaned => IsUnique(last.panel.index)

\* the row positions in ascending Date order
RECURSIVE ByDate(_, _)
ByDate(df, rows) ==
    IF rows = {} THEN <<>>
    ELSE LET first == CHOOSE i \in rows :
                        \A k \in rows : DateOf(df, i) <= DateOf(df, k)
         IN  <<first>> \o ByDate(df, rows \ {first})

\* C10: on a panel with one row per (Date, Ticker) and no missing Close, the
\* windowed features of every row are those computed over its ticker's rows
\* in ascending Date order.
C10_FeaturesInDateOrder ==
    (/\ TransformOk
     /\ IsUnique(last.df.index)
     /\ \A i \in 1..NRows(last.panel) : ~IsNa(last.panel.rows[i]["Close"])) =>
        \A t \in OutTickers :
            LET pos == ByDate(last.df, Range(GroupRows(last.df, t)))
                close == [j \in 1..Len(pos) |-> Out(pos[j], "Close")]
            IN  \A j \in 1..Len(pos) :
                    /\ Out(pos[j], "DailyReturn") = PctChange(close)[j]
                    /\ RollOut(pos[j]) = RollingMean(close, cfg.roll_avg_days)[j]
                    /\ EmaOut(pos[j]) = EwmMean(close, cfg.ema_span)[j]

----------------------------------------------------------------------------
(* Properties of the etl command                                           *)

\* the raw file extract() writes for a ticker
RawFile(t) == ToCsv(ResetIndex(feed[t]))

\* a step in which extract() returned: no run was under way, and the key
\* it recorded is the day it started on
ExtractReturned ==
    /\ last'.cmd = "extract"
    /\ last' # last
    /\ EtlIdle
    /\ last'.key = today

\* a step in which transform() returned: extract() had returned just
\* before with the same key, and the raw file of every requested ticker was
\* in that key's partition as extract() wrote it
TransformReturned ==
    /\ last'.cmd = "transform"
    /\ last.cmd = "extract"
    /\ last'.key = last.key
    /\ last'.status # "FileNotFoundError"
    /\ \A i \in 1..Len(tickers) :
          /\ ExtractPath(last.key, tickers[i]) \in DOMAIN files
          /\ files[ExtractPath(last.key, tickers[i])] = RawFile(tickers[i])
    /\ last'.panel = ReadAndConcatenate(files, last.key, tickers)

\* a step in which load() returned: transform() had returned a table just
\* before with the same key, and load() read the file written from that table
LoadReturned ==
    /\ last'.cmd = "load"
    /\ last.cmd = "transform"
    /\ last.status = "ok"
    /\ last'.key = last.key
    /\ last'.status = "ok"
    /\ files[TransformPath(last.key)] = ToCsv(last.df)
    /\ last'.df = ReadCsv(files[TransformPath(last.key)])

\* C11: in etl runs every stage that returns is the next one in the order
\* Extract, Transform, Load; Transform and Load use the key the run's
\* Extractor recorded; Transform finds every requested ticker's raw file as
\* Extract wrote it, and Load reads the file the run's Transform wrote.
C11_EtlStagesInOrder ==
    [][ExtractReturned \/ TransformReturned \/ LoadReturned]_last

\* C11 witness: a run that started on the first day has loaded its table,
\* with rows, after midnight, when no partition of the new day exists
C11_Witness ==
    /\ LoadRan
    /\ last.status = "ok"
    /\ NRows(last.df) > 0
    /\ last.key = Keys[1]
    /\ today = Keys[2]
    /\ \A i \in 1..Len(tickers) : ExtractPath(today, tickers[i]) \notin DOMAIN files
    /\ TransformPath(today) \notin DOMAIN files

----------------------------------------------------------------------------
(* Properties of clean() across tickers                                    *)

FilledColumns == PriceColumns \cup {"Volume"}

\* C12: every value clean() writes into a missing price or Volume of a row
\* of ticker T is the value that another row of T holds in that column of
\* the panel.
C12_CleanFillsWithinTicker ==
    Cleaned =>
        \A i \in 1..NRows(last.panel) : \A c \in FilledColumns :
            (IsNa(last.panel.rows[i][c]) /\ ~IsNa(last.cleaned.rows[i][c])) =>
                \E j \in 1..NRows(last.panel) :
                    /\ j # i
                    /\ TickerOf(last.panel, j) = TickerOf(last.panel, i)
                    /\ last.panel.rows[j][c] = last.cleaned.rows[i][c]

====
